---- MODULE Spec2Model ----
(***************************************************************************)
(* Model of spinta.components.Context: a stack of states holding values,   *)
(* lazily evaluated factories (bind) and lazily entered context managers   *)
(* (attach), with fork() building a new Context from the current state.    *)
(*                                                                         *)
(* Python list index k (0-based) is index k + 1 here: the bottom state of  *)
(* a Context is state 1.                                                   *)
(*                                                                         *)
(* Also modelled: spinta.components.Page (the keyset pagination cursor),   *)
(* its token encoding, get_page_size, and the type mapping cache of the    *)
(* SAS dialect.                                                            *)
(***************************************************************************)
EXTENDS Integers, Sequences, FiniteSets, TLC

\* ---------------------------------------------------------------- bounds
MaxCtx == 2      \* Context objects that are ever constructed (root + forks)
MaxDepth == 2    \* nested `with context:` blocks per Context
MaxObj == 2      \* objects produced by factories and context managers
MaxBroken == 1   \* scope exits per Context during which a release raised
MaxForkDepth == 1  \* nested `with context:` blocks when forks are modelled
MaxAttachDepth == 1  \* nested `with context:` blocks when two names are attached
MaxKeys == 2     \* bindings of a Page
MaxSize == 2     \* largest page size
MaxLength == 2   \* largest column length of a SAS column

Ctxs == 1..MaxCtx
Names == {"a", "b"}          \* context variable names
OneName == {"a"}
Values == {"u", "v"}         \* objects passed to set()
OneValue == {"u"}
Factories == {"f"}           \* callables passed to bind()
Managers == {"cm"}           \* context manager factories passed to attach()

\* ---------------------------------------------------------------- state
VARIABLES
    nctx,         \* number of Context objects constructed so far
    parent,       \* Context._parent   (0 is None)
    context,      \* Context._context      : list of dict name -> value
    exitstack,    \* Context._exitstack    : list of Optional[ExitStack]
    names,        \* Context._names        : list of set of names
    local_names,  \* Context._local_names  : list of set of names
    factory,      \* Context._factory      : list of dict name -> callable
    cmgrs,        \* Context._cmgrs        : list of dict name -> cm factory
    invoked,      \* history: per _factory entry, how the calls of it ended
    regs,         \* history: per entered scope, what was registered in it
    nobj,         \* history: objects produced so far by factories / managers
    acqlog,       \* history: the resources entered so far, in order
    released,     \* history: resources whose __exit__ has run
    last,         \* history: the last call and its outcome
    page_by,      \* Page.by   : ordered dict key -> PageBy(prop, value)
    page_size,    \* Page.size : Optional[int]
    pcall,        \* history: the last call on the Page and its outcome
    type_mapping_cache,  \* SASDialect._type_mapping_cache
    mapped        \* history: the last type mapping call and its result

cvars == <<nctx, parent, context, exitstack, names, local_names, factory,
           cmgrs, invoked, regs, nobj, acqlog, released, last>>
pvars == <<page_by, page_size, pcall>>
svars == <<type_mapping_cache, mapped>>
vars == <<cvars, pvars, svars>>

\* ---------------------------------------------------------------- helpers
EmptyDict == [x \in {} |-> 0]
Top(s) == s[Len(s)]
Pop(s) == SubSeq(s, 1, Len(s) - 1)
SetTop(s, v) == [s EXCEPT ![Len(s)] = v]
Put(d, k, v) == [x \in (DOMAIN d) \cup {k} |-> IF x = k THEN v ELSE d[x]]
Restrict(d, ks) == [x \in ks |-> d[x]]
Reverse(s) == [i \in 1..Len(s) |-> s[Len(s) + 1 - i]]

NoValue == [k |-> "none", f |-> "", c |-> 0, s |-> 0, n |-> 0]
SetValue(v) == [k |-> "set", f |-> v, c |-> 0, s |-> 0, n |-> 0]
\* What the callable f returned to Context c when get() found it in state s;
\* n numbers the resources that were entered.
FactoryValue(f, c, s) == [k |-> "fac", f |-> f, c |-> c, s |-> s, n |-> 0]
ResourceValue(f, c, s, n) == [k |-> "res", f |-> f, c |-> c, s |-> s, n |-> n]

\* The (factory, args, kwargs) tuple stored by bind and attach. c and d are
\* history: the Context that registered it and the number of states that
\* Context had at that time.
Registration(f, c, d) == [f |-> f, c |-> c, d |-> d]

NoneStack == [none |-> TRUE, cbs |-> <<>>]      \* the None in _exitstack[0]
NewExitStack == [none |-> FALSE, cbs |-> <<>>]  \* contextlib.ExitStack()

Call(op, c, name) ==
    [op |-> op, c |-> c, name |-> name, err |-> "", res |-> NoValue,
     how |-> "", inv |-> 0, rel |-> <<>>, exc |-> FALSE]

\* ---------------------------------------------------------------- JSON values
\* A Python value that JSON can carry as a scalar: None, an int or a str
\* (s is the text of a str, a sequence of characters).
None == [t |-> "null", n |-> 0, s |-> <<>>]
JInt(n) == [t |-> "int", n |-> n, s |-> <<>>]
JStr(s) == [t |-> "str", n |-> 0, s |-> s]

SeqsUpTo(S, n) == UNION {[1..k -> S] : k \in 0..n}

Keys == {<<"x">>, <<"-", "x">>, <<"y">>}     \* 'x', '-x', 'y'
Props == {"p", "q"}
OneProp == {"p"}
Scalars == {JInt(10), JStr(<<"1", "0">>)}         \* 10 and '10'
ValuesOrNone == Scalars \cup {None}
ValueLists == SeqsUpTo(ValuesOrNone, MaxKeys)
Depths == (0 - 1)..(MaxKeys + 1)
PageSizes == {None} \cup {JInt(n) : n \in 0..MaxSize}

\* ---------------------------------------------------------------- token
\* The code points of the characters that occur in the JSON texts.
Ord ==
    ("[" :> 91) @@ ("]" :> 93) @@ ("," :> 44) @@ (" " :> 32) @@ ("\"" :> 34)
    @@ ("0" :> 48) @@ ("1" :> 49) @@ ("2" :> 50) @@ ("3" :> 51) @@ ("4" :> 52)
    @@ ("5" :> 53) @@ ("6" :> 54) @@ ("7" :> 55) @@ ("8" :> 56) @@ ("9" :> 57)
    @@ ("l" :> 108) @@ ("n" :> 110) @@ ("u" :> 117)
Chr(b) == CHOOSE c \in DOMAIN Ord : Ord[c] = b
DigitChars == <<"0", "1", "2", "3", "4", "5", "6", "7", "8", "9">>
IsDigit(c) == \E i \in 1..Len(DigitChars) : DigitChars[i] = c
DigitOf(c) == (CHOOSE i \in 1..Len(DigitChars) : DigitChars[i] = c) - 1

RECURSIVE Decimal(_)
Decimal(n) ==
    IF n < 10 THEN <<DigitChars[n + 1]>>
    ELSE Decimal(n \div 10) \o <<DigitChars[(n % 10) + 1]>>

RECURSIVE ToInt(_)
ToInt(digits) ==
    IF digits = <<>> THEN 0
    ELSE 10 * ToInt(SubSeq(digits, 1, Len(digits) - 1))
         + DigitOf(digits[Len(digits)])

\* json.dumps of one scalar
json_dumps_scalar(v) ==
    CASE v.t = "null" -> <<"n", "u", "l", "l">>
      [] v.t = "int" -> Decimal(v.n)
      [] v.t = "str" -> <<"\"">> \o v.s \o <<"\"">>

\* json.dumps(values): '[' item ', ' item ... ']'
RECURSIVE json_dumps_items(_)
json_dumps_items(values) ==
    IF values = <<>> THEN <<>>
    ELSE IF Len(values) = 1 THEN json_dumps_scalar(values[1])
    ELSE json_dumps_scalar(values[1]) \o <<",", " ">>
         \o json_dumps_items(Tail(values))

json_dumps(values) == <<"[">> \o json_dumps_items(values) \o <<"]">>

\* str.encode('ascii') and bytes -> str
encode_ascii(text) == [i \in 1..Len(text) |-> Ord[text[i]]]
decode_ascii(bytes) == [i \in 1..Len(bytes) |-> Chr(bytes[i])]

\* base64: a token is the sequence of the indexes (0..63) of its characters in
\* the URL-safe alphabet; Pad is '='.
Pad == 64

RECURSIVE urlsafe_b64encode(_)
urlsafe_b64encode(b) ==
    IF b = <<>> THEN <<>>
    ELSE IF Len(b) = 1
    THEN <<b[1] \div 4, (b[1] % 4) * 16, Pad, Pad>>
    ELSE IF Len(b) = 2
    THEN <<b[1] \div 4, (b[1] % 4) * 16 + (b[2] \div 16), (b[2] % 16) * 4, Pad>>
    ELSE <<b[1] \div 4, (b[1] % 4) * 16 + (b[2] \div 16),
           (b[2] % 16) * 4 + (b[3] \div 64), b[3] % 64>>
         \o urlsafe_b64encode(SubSeq(b, 4, Len(b)))

RECURSIVE urlsafe_b64decode(_)
urlsafe_b64decode(t) ==
    IF Len(t) < 4 THEN <<>>
    ELSE LET b1 == t[1] * 4 + (t[2] \div 16)
             b2 == (t[2] % 16) * 16 + (t[3] \div 4)
             b3 == (t[3] % 4) * 64 + t[4]
             rest == urlsafe_b64decode(SubSeq(t, 5, Len(t)))
         IN IF t[3] = Pad THEN <<b1>>
            ELSE IF t[4] = Pad THEN <<b1, b2>>
            ELSE <<b1, b2, b3>> \o rest

\* The end of the run of characters that starts at i and satisfies the test:
\* the index of the first character after it.
RECURSIVE EndOfDigits(_, _)
EndOfDigits(text, i) ==
    IF i <= Len(text) /\ IsDigit(text[i]) THEN EndOfDigits(text, i + 1) ELSE i

RECURSIVE ClosingQuote(_, _)
ClosingQuote(text, i) ==
    IF i > Len(text) \/ text[i] = "\"" THEN i ELSE ClosingQuote(text, i + 1)

\* json.loads of the scalar that starts at text[i]: the value and the index
\* after it.
json_loads_scalar(text, i) ==
    IF text[i] = "\""
    THEN LET j == ClosingQuote(text, i + 1)
         IN [val |-> JStr(SubSeq(text, i + 1, j - 1)), next |-> j + 1]
    ELSE IF text[i] = "n"
    THEN [val |-> None, next |-> i + 4]
    ELSE LET j == EndOfDigits(text, i)
         IN [val |-> JInt(ToInt(SubSeq(text, i, j - 1))), next |-> j]

RECURSIVE json_loads_items(_, _, _)
json_loads_items(text, i, acc) ==
    IF i > Len(text) \/ text[i] = "]" THEN acc
    ELSE IF text[i] \in {",", " "} THEN json_loads_items(text, i + 1, acc)
    ELSE LET item == json_loads_scalar(text, i)
         IN json_loads_items(text, item.next, Append(acc, item.val))

\* json.loads of the text of an array
json_loads(text) == json_loads_items(text, 2, <<>>)

\* spinta.utils.encoding.encode_page_values(values)
encode_page_values(values) == urlsafe_b64encode(encode_ascii(json_dumps(values)))

\* decode_page_values(encoded)
decode_page_values(encoded) == json_loads(decode_ascii(urlsafe_b64decode(encoded)))

\* The tokens of the value lists, and what they decode to (as tables).
TokenOf == [values \in ValueLists |-> encode_page_values(values)] @@ <<>>
Tokens == {TokenOf[values] : values \in ValueLists}
Loaded == [key \in Tokens |-> decode_page_values(key)] @@ <<>>

\* ---------------------------------------------------------------- Page
\* A dict is the sequence of its items in insertion order.
PageBy(prop, value) == [prop |-> prop, value |-> value]
DictKeys(d) == [i \in 1..Len(d) |-> d[i].key]
HasKey(d, key) == \E i \in 1..Len(d) : d[i].key = key
KeyIndex(d, key) == CHOOSE i \in 1..Len(d) : d[i].key = key
\* d[key] = item: an existing key keeps its position
DictSet(d, key, item) ==
    IF HasKey(d, key) THEN [d EXCEPT ![KeyIndex(d, key)].item = item]
    ELSE Append(d, [key |-> key, item |-> item])

Bindings == [key : Keys, item : [prop : OneProp, value : ValuesOrNone]]
Pages ==
    {d \in SeqsUpTo(Bindings, MaxKeys) :
        \A i, j \in 1..Len(d) : d[i].key = d[j].key => i = j}

PageCall(op, arg) == [op |-> op, arg |-> arg, err |-> "", res |-> <<>>]

\* Page.__init__(size=size)
page(size) ==
    /\ page_by' = <<>>
    /\ page_size' = size
    /\ pcall' = PageCall("init", <<size>>)

\* Page.add_prop
add_prop(by, prop, value) ==
    /\ HasKey(page_by, by) \/ Len(page_by) < MaxKeys
    /\ page_by' = DictSet(page_by, by, PageBy(prop, value))
    /\ pcall' = PageCall("add_prop", <<by, prop, value>>)
    /\ UNCHANGED page_size

\* {by if key == cleaned_up else key: value for key, value in self.by.items()}
RECURSIVE Renamed(_, _, _, _)
Renamed(d, cleaned_up, by, acc) ==
    IF d = <<>> THEN acc
    ELSE Renamed(Tail(d), cleaned_up, by,
                 DictSet(acc, IF d[1].key = cleaned_up THEN by ELSE d[1].key,
                         d[1].item))

\* Page.update_value that does not rename.
WithValueNoRename(d, by, prop, value) ==
    LET created == IF ~ HasKey(d, by) THEN DictSet(d, by, PageBy(prop, None))
                   ELSE d
    IN [created EXCEPT ![KeyIndex(created, by)].item.value = value]

\* Page.update_value: self.by after the call
WithValue(d, by, prop, value) ==
    LET cleaned_up == IF by # <<>> /\ by[1] = "-" THEN Tail(by) ELSE by
        renamed == IF cleaned_up # by /\ HasKey(d, cleaned_up)
                   THEN Renamed(d, cleaned_up, by, <<>>)
                   ELSE d
        created == IF ~ HasKey(renamed, by)
                   THEN DictSet(renamed, by, PageBy(prop, None))
                   ELSE renamed
    IN [created EXCEPT ![KeyIndex(created, by)].item.value = value]

update_value(by, prop, value) ==
    /\ Len(WithValue(page_by, by, prop, value)) <= MaxKeys
    /\ page_by' = WithValue(page_by, by, prop, value)
    /\ pcall' = PageCall("update_value", <<by, prop, value>>)
    /\ UNCHANGED page_size

\* Page.clear that empties the dict of bindings.
Emptied(d) == <<>>

\* Page.clear: self.by after the call
Cleared(d) == [i \in 1..Len(d) |-> [d[i] EXCEPT !.item.value = None]]

clear ==
    /\ page_by' = Cleared(page_by)
    /\ pcall' = PageCall("clear", <<>>)
    /\ UNCHANGED page_size

\* Page.clear_till_depth that counts from the first binding.
ClearedFromFront(d, depth) ==
    [j \in 1..Len(d) |->
        IF j - 1 < depth THEN [d[j] EXCEPT !.item.value = None] ELSE d[j]]

\* Page.clear_till_depth: item j is the (Len(d) - j)-th of reversed(values())
ClearedTillDepth(d, depth) ==
    [j \in 1..Len(d) |->
        IF Len(d) - j < depth THEN [d[j] EXCEPT !.item.value = None] ELSE d[j]]

clear_till_depth(depth) ==
    /\ page_by' = ClearedTillDepth(page_by, depth)
    /\ pcall' = PageCall("clear_till_depth", <<depth>>)
    /\ UNCHANGED page_size

\* for i, (by, page_by) in enumerate(items): self.update_value(by,
\* page_by.prop, values[i]), for the items from the i-th on
RECURSIVE UpdatedFrom(_, _, _, _)
UpdatedFrom(d, items, values, i) ==
    IF i > Len(items) THEN d
    ELSE UpdatedFrom(WithValue(d, items[i].key, items[i].item.prop, values[i]),
                     items, values, i + 1)

\* Page.update_values_from_page_key that refuses only the shorter lists.
TooShort(loaded, d) == Len(loaded) < Len(d)

\* len(loaded) != len(self.by)
WrongLength(loaded, d) == Len(loaded) # Len(d)

\* Page.update_values_from_page_key that runs the loop over the bindings
\* before it compares the lengths.
LoadedThenChecked(d, values) ==
    IF Len(values) < Len(d) THEN d ELSE UpdatedFrom(d, d, values, 1)

\* Page.update_values_from_page_key, update_values_from_list: self.by after
\* the call; the length is compared first and the raise leaves self.by alone.
LoadedInto(d, values) ==
    IF WrongLength(values, d) THEN d ELSE UpdatedFrom(d, d, values, 1)

\* Page.update_values_from_page_key
update_values_from_page_key(key) ==
    LET loaded == Loaded[key]
    IN /\ page_by' = LoadedInto(page_by, loaded)
       /\ pcall' = [PageCall("update_values_from_page_key", <<key>>)
                       EXCEPT !.err = IF WrongLength(loaded, page_by)
                                      THEN "InvalidPageKey" ELSE ""]
       /\ UNCHANGED page_size

\* Page.update_values_from_list
update_values_from_list(values) ==
    /\ page_by' = LoadedInto(page_by, values)
    /\ pcall' = IF Len(values) # Len(page_by)
                THEN [PageCall("update_values_from_list", <<values>>)
                         EXCEPT !.err = "InvalidPushWithPageParameterCount",
                                !.res = DictKeys(page_by)]
                ELSE PageCall("update_values_from_list", <<values>>)
    /\ UNCHANGED page_size

\* Page.update_values_from_page: self.by after the call
FromPage(d, other) ==
    UpdatedFrom(Cleared(d), other,
                [i \in 1..Len(other) |-> other[i].item.value], 1)

update_values_from_page(other) ==
    /\ Len(FromPage(page_by, other)) <= MaxKeys
    /\ page_by' = FromPage(page_by, other)
    /\ pcall' = PageCall("update_values_from_page", <<other>>)
    /\ UNCHANGED page_size

\* Page.all_none with any() in place of all().
SomeNone(d) == \E i \in 1..Len(d) : d[i].item.value = None

\* Page.all_none
all_none(d) == \A i \in 1..Len(d) : d[i].item.value = None

\* Python truth of an Optional[int]
Truthy(v) == v # None /\ ~ (v.t = "int" /\ v.n = 0)
Or(a, b) == IF Truthy(a) THEN a ELSE b

\* get_page_size(config, model, page): the value returned; given is FALSE when
\* page is None
PageSize(default_page_size, model_size, given, size) ==
    LET request_size == IF given THEN size ELSE None
    IN Or(Or(request_size, model_size), default_page_size)

get_page_size(default_page_size, model_size, given) ==
    /\ pcall' = [PageCall("get_page_size",
                          <<default_page_size, model_size, given>>)
                    EXCEPT !.res = PageSize(default_page_size, model_size,
                                            given, page_size)]
    /\ UNCHANGED <<page_by, page_size>>

\* Page.get_repr_for_error: 'size': self.size - 1 if self.size else self.size
ReportedSize(size) == IF Truthy(size) THEN JInt(size.n - 1) ELSE size

\* Page.get_repr_for_error: the dict returned, 'key_values' as the sequence
\* of its items
ReprForError(d, size) ==
    [key |-> encode_page_values([i \in 1..Len(d) |-> d[i].item.value]),
     key_values |-> [i \in 1..Len(d) |-> <<d[i].key, d[i].item.value>>],
     size |-> ReportedSize(size)]

get_repr_for_error ==
    /\ pcall' = [PageCall("get_repr_for_error", <<>>)
                    EXCEPT !.res = ReprForError(page_by, page_size)]
    /\ UNCHANGED <<page_by, page_size>>

\* ---------------------------------------------------------------- SAS dialect
SasTypes == {"char", "num"}
CharFormats == {"None", "$CHAR."}        \* format_str of a char column
Lengths == 1..MaxLength
NoType == [type |-> "", length |-> 0]
SASStringType(length) == [type |-> "VARCHAR", length |-> length]
NUMERIC == [type |-> "NUMERIC", length |-> 0]

\* The text of a column length as the driver reports it: '50.0' is 50 and 0
\* tenths.
LengthText(whole, tenths) == [whole |-> whole, tenths |-> tenths]
\* int(float(length))
IntOfFloat(length) == length.whole

\* cache_key = f"{sas_type}_{format_str}"
CacheKey(sas_type, length, format_str) == <<sas_type, format_str>>

\* SASDialect._map_sas_type_to_sqlalchemy, for char columns and for num
\* columns without a format
map_sas_type_to_sqlalchemy(sas_type, length, format_str) ==
    LET cache_key == CacheKey(sas_type, length, format_str)
        sa_type == IF cache_key \in DOMAIN type_mapping_cache
                   THEN type_mapping_cache[cache_key]
                   ELSE IF sas_type = "char"
                   THEN SASStringType(IntOfFloat(length))
                   ELSE NUMERIC
    IN /\ type_mapping_cache' =
              IF cache_key \in DOMAIN type_mapping_cache
              THEN type_mapping_cache
              ELSE Put(type_mapping_cache, cache_key, sa_type)
       /\ mapped' = [sas_type |-> sas_type, length |-> length,
                     format_str |-> format_str, res |-> sa_type]

\* ---------------------------------------------------------------- Context
\* Context.__init__(name, parent=None)
ContextInit(p) ==
    IF p = 0
    THEN [context |-> <<EmptyDict>>, factory |-> <<EmptyDict>>,
          names |-> <<{}>>]
    ELSE LET copy_keys == (DOMAIN Top(context[p])) \
                          ((DOMAIN Top(cmgrs[p])) \cup (DOMAIN Top(factory[p])))
         IN [context |-> <<Restrict(Top(context[p]), copy_keys)>>,
             factory |-> <<Top(factory[p])>>,
             names |-> <<Top(names[p])>>]

Init ==
    /\ nctx = 1
    /\ parent = [c \in Ctxs |-> 0]
    /\ context = [c \in Ctxs |-> IF c = 1 THEN ContextInit(0).context ELSE <<>>]
    /\ factory = [c \in Ctxs |-> IF c = 1 THEN ContextInit(0).factory ELSE <<>>]
    /\ names = [c \in Ctxs |-> IF c = 1 THEN ContextInit(0).names ELSE <<>>]
    /\ cmgrs = [c \in Ctxs |-> IF c = 1 THEN <<EmptyDict>> ELSE <<>>]
    /\ local_names = [c \in Ctxs |-> IF c = 1 THEN <<{}>> ELSE <<>>]
    /\ exitstack = [c \in Ctxs |-> IF c = 1 THEN <<NoneStack>> ELSE <<>>]
    /\ invoked = [c \in Ctxs |-> IF c = 1 THEN <<EmptyDict>> ELSE <<>>]
    /\ regs = [c \in Ctxs |-> IF c = 1 THEN <<EmptyDict>> ELSE <<>>]
    /\ nobj = 0
    /\ acqlog = <<>>
    /\ released = {}
    /\ last = Call("init", 1, "")
    /\ page_by = <<>>
    /\ page_size = None
    /\ pcall = PageCall("init", <<>>)
    /\ type_mapping_cache = EmptyDict
    /\ mapped = [sas_type |-> "", length |-> LengthText(0, 0),
                 format_str |-> "", res |-> NoType]

\* Context.fork(name): type(self)(name, self)
fork(p) ==
    /\ p <= nctx
    /\ nctx < MaxCtx
    /\ LET c == nctx + 1
           new == ContextInit(p)
       IN /\ nctx' = c
          /\ parent' = [parent EXCEPT ![c] = p]
          /\ context' = [context EXCEPT ![c] = new.context]
          /\ factory' = [factory EXCEPT ![c] = new.factory]
          /\ names' = [names EXCEPT ![c] = new.names]
          /\ cmgrs' = [cmgrs EXCEPT ![c] = <<EmptyDict>>]
          /\ local_names' = [local_names EXCEPT ![c] = <<{}>>]
          /\ exitstack' = [exitstack EXCEPT ![c] = <<NoneStack>>]
          /\ invoked' = [invoked EXCEPT ![c] = <<EmptyDict>>]
          /\ regs' = [regs EXCEPT ![c] = <<EmptyDict>>]
          /\ last' = Call("fork", c, "")
    /\ UNCHANGED <<nobj, acqlog, released>>

\* The dict that Context.__enter__ appends to _cmgrs.
EnteredCmgrs(c) ==
    IF parent[c] # 0 /\ Len(cmgrs[c]) = 1
    THEN Top(cmgrs[parent[c]])
    ELSE EmptyDict

\* Context.__enter__
enter(c, depth) ==
    /\ c <= nctx
    /\ Len(context[c]) <= depth
    /\ context' = [context EXCEPT ![c] = Append(@, Top(@))]
    /\ exitstack' = [exitstack EXCEPT ![c] = Append(@, NewExitStack)]
    /\ names' = [names EXCEPT ![c] = Append(@, Top(@))]
    /\ local_names' = [local_names EXCEPT ![c] = Append(@, {})]
    /\ factory' = [factory EXCEPT ![c] = Append(@, EmptyDict)]
    /\ cmgrs' = [cmgrs EXCEPT ![c] = Append(@, EnteredCmgrs(c))]
    /\ invoked' = [invoked EXCEPT ![c] = Append(@, EmptyDict)]
    /\ regs' = [regs EXCEPT ![c] = Append(@, EmptyDict)]
    /\ last' = Call("enter", c, "")
    /\ UNCHANGED <<nctx, parent, nobj, acqlog, released>>

\* A scope exit that pops the ExitStack and does not close it.
PopWithoutClose(es) == <<>>

\* self._exitstack.pop().close(): the callbacks that are run, in the order in
\* which they are run.
close(es) == Reverse(es.cbs)

\* Context.__exit__(*exc). ExitStack.close() runs every callback, last
\* entered first, and re-raises afterwards when one of them raised; the four
\* pops that follow it are then skipped. exc tells whether the with block is
\* left by an exception.
exit(c, exc, raised) ==
    /\ c <= nctx
    /\ Len(context[c]) > 1
    /\ LET cbs == close(Top(exitstack[c]))
       IN /\ raised => /\ cbs # <<>>
                       /\ Len(names[c]) - Len(context[c]) < MaxBroken
          /\ context' = [context EXCEPT ![c] = Pop(@)]
          /\ exitstack' = [exitstack EXCEPT ![c] = Pop(@)]
          /\ regs' = [regs EXCEPT ![c] = Pop(@)]
          /\ released' = released \cup {cbs[i] : i \in 1..Len(cbs)}
          /\ last' = [Call("exit", c, "") EXCEPT
                         !.rel = cbs,
                         !.exc = exc,
                         !.err = IF raised THEN "Raised" ELSE ""]
          /\ IF raised
             THEN UNCHANGED <<names, local_names, factory, cmgrs, invoked>>
             ELSE /\ names' = [names EXCEPT ![c] = Pop(@)]
                  /\ local_names' = [local_names EXCEPT ![c] = Pop(@)]
                  /\ factory' = [factory EXCEPT ![c] = Pop(@)]
                  /\ cmgrs' = [cmgrs EXCEPT ![c] = Pop(@)]
                  /\ invoked' = [invoked EXCEPT ![c] = Pop(@)]
    /\ UNCHANGED <<nctx, parent, nobj, acqlog>>

\* Context._set_local_name: the condition under which it raises.
AlreadySet(c, name) == name \in Top(local_names[c])

\* Context._set_local_name, when it does not raise
set_local_name(c, name) ==
    /\ local_names' = [local_names EXCEPT ![c] = SetTop(@, Top(@) \cup {name})]
    /\ names' = [names EXCEPT ![c] = SetTop(@, Top(@) \cup {name})]

\* A call that registers the name and raises afterwards.
FailedNamed(op, c, name, err) ==
    /\ last' = [Call(op, c, name) EXCEPT !.err = err]
    /\ set_local_name(c, name)
    /\ UNCHANGED <<nctx, parent, context, exitstack, factory, cmgrs, invoked,
                   regs, nobj, acqlog, released>>

\* A call that raises before it changes anything.
Failed(op, c, name, err) ==
    /\ last' = [Call(op, c, name) EXCEPT !.err = err]
    /\ UNCHANGED <<nctx, parent, context, exitstack, names, local_names,
                   factory, cmgrs, invoked, regs, nobj, acqlog, released>>

Registered(c, name, kind, f) ==
    regs' = [regs EXCEPT ![c] =
                SetTop(@, Put(Top(@), name, [kind |-> kind, f |-> f]))]

\* Context.set(name, value)
set(c, name, v) ==
    /\ c <= nctx
    /\ IF AlreadySet(c, name)
       THEN Failed("set", c, name, "AlreadySet")
       ELSE /\ set_local_name(c, name)
            /\ context' = [context EXCEPT ![c] =
                              SetTop(@, Put(Top(@), name, SetValue(v)))]
            /\ Registered(c, name, "set", v)
            /\ last' = [Call("set", c, name) EXCEPT !.res = SetValue(v)]
            /\ UNCHANGED <<nctx, parent, exitstack, factory, cmgrs, invoked,
                           nobj, acqlog, released>>

\* Context.bind(name, factory)
bind(c, name, f) ==
    /\ c <= nctx
    /\ IF AlreadySet(c, name)
       THEN Failed("bind", c, name, "AlreadySet")
       ELSE /\ set_local_name(c, name)
            /\ factory' = [factory EXCEPT ![c] =
                  SetTop(@, Put(Top(@), name,
                                Registration(f, c, Len(context[c]))))]
            /\ invoked' = [invoked EXCEPT ![c] =
                  SetTop(@, Restrict(Top(@), (DOMAIN Top(@)) \ {name}))]
            /\ Registered(c, name, "bind", f)
            /\ last' = Call("bind", c, name)
            /\ UNCHANGED <<nctx, parent, context, exitstack, cmgrs, nobj,
                           acqlog, released>>

\* Context.attach(name, factory)
attach(c, name, m) ==
    /\ c <= nctx
    /\ IF Top(exitstack[c]).none
       THEN Failed("attach", c, name, "Assertion")
       ELSE IF AlreadySet(c, name)
       THEN Failed("attach", c, name, "AlreadySet")
       ELSE /\ set_local_name(c, name)
            /\ cmgrs' = [cmgrs EXCEPT ![c] =
                  SetTop(@, Put(Top(@), name,
                                Registration(m, c, Len(context[c]))))]
            /\ Registered(c, name, "attach", m)
            /\ last' = Call("attach", c, name)
            /\ UNCHANGED <<nctx, parent, context, exitstack, factory, invoked,
                           nobj, acqlog, released>>

\* The inner loop of Context.get: the last state of `stack` that has `name`,
\* 0 when there is none.
FindState(stack, name) ==
    LET found == {s \in 1..Len(stack) : name \in DOMAIN stack[s]}
    IN IF found = {} THEN 0 ELSE CHOOSE s \in found : \A t \in found : t <= s

\* What Context.get(name) does on the stacks ctx, fac and cm: return the
\* cached value, go to the factory ("factory") or the context manager
\* ("cmgr") found in state s, or raise.
LookupIn(ctx, fac, cm, name) ==
    LET fs == FindState(fac, name)
        ms == FindState(cm, name)
    IN IF name \in DOMAIN Top(ctx) THEN [kind |-> "cached", s |-> 0]
       ELSE IF fs # 0 THEN [kind |-> "factory", s |-> fs]
       ELSE IF ms # 0 THEN [kind |-> "cmgr", s |-> ms]
       ELSE [kind |-> "unknown", s |-> 0]

Lookup(c, name) == LookupIn(context[c], factory[c], cmgrs[c], name)

\* Context.get that stores the value in the current state only.
StoreInCurrent(stack, s, name, val) ==
    SetTop(stack, Put(Top(stack), name, val))

\* Context.get that stores the value in every state from the one where the
\* registration was found to the current one.
StoreInBetween(stack, s, name, val) ==
    [k \in 1..Len(stack) |->
        IF k >= s THEN Put(stack[k], name, val) ELSE stack[k]]

\* Context.get: the value is stored in the state where the registration was
\* found and in the current state.
Store(stack, s, name, val) ==
    LET first == [stack EXCEPT ![s] = Put(@, name, val)]
    IN SetTop(first, Put(Top(first), name, val))

\* Context._get_cmgr_value entering into the ExitStack of the current state.
CmgrExitStackCurrent(c, s) == Len(exitstack[c])

\* Context._get_cmgr_value: the ExitStack the context manager is entered into.
CmgrExitStack(c, s) == s

\* Context.get(name); `ok` tells whether the factory (or the context
\* manager's __enter__) returns or raises, when one is called.
get(c, name, ok) ==
    /\ c <= nctx
    /\ LET lk == Lookup(c, name)
           s == lk.s
           top == Len(context[c])
       IN CASE lk.kind = "cached" ->
                 /\ ok
                 /\ last' = [Call("get", c, name) EXCEPT
                                !.res = Top(context[c])[name],
                                !.how = "cached"]
                 /\ UNCHANGED <<nctx, parent, context, exitstack, names,
                                local_names, factory, cmgrs, invoked, regs,
                                nobj, acqlog, released>>
            [] lk.kind = "unknown" ->
                 /\ ok
                 /\ Failed("get", c, name, "Unknown")
            [] lk.kind \in {"factory", "cmgr"} /\ s > top ->
                 \* self._context[state] with state >= len(self._context)
                 /\ ok
                 /\ Failed("get", c, name, "IndexError")
            [] lk.kind \in {"factory", "cmgr"} /\ s <= top
                 /\ name \in DOMAIN context[c][s] ->
                 \* already resolved in state s: copy it to the current state
                 /\ ok
                 /\ context' = [context EXCEPT ![c] =
                                   SetTop(@, Put(Top(@), name, @[s][name]))]
                 /\ last' = [Call("get", c, name) EXCEPT
                                !.res = context[c][s][name],
                                !.how = "copied"]
                 /\ UNCHANGED <<nctx, parent, exitstack, names, local_names,
                                factory, cmgrs, invoked, regs, nobj, acqlog,
                                released>>
            [] lk.kind = "factory" /\ s <= top
                 /\ name \notin DOMAIN context[c][s] ->
                 \* _get_factory_value(state, name)
                 /\ invoked' = [invoked EXCEPT ![c][s] =
                       Put(@, name, IF ok THEN "returned" ELSE "raised")]
                 /\ IF ok
                    THEN LET val == FactoryValue(factory[c][s][name].f, c, s)
                         IN /\ context' = [context EXCEPT ![c] =
                                              Store(@, s, name, val)]
                            /\ last' = [Call("get", c, name) EXCEPT
                                           !.res = val, !.inv = s,
                                           !.how = "factory"]
                    ELSE /\ last' = [Call("get", c, name) EXCEPT
                                        !.err = "Raised", !.inv = s,
                                        !.how = "factory"]
                         /\ UNCHANGED context
                 /\ UNCHANGED <<nctx, parent, exitstack, names, local_names,
                                factory, cmgrs, regs, nobj, acqlog, released>>
            [] lk.kind = "cmgr" /\ s <= top
                 /\ name \notin DOMAIN context[c][s] ->
                 \* _get_cmgr_value(state, name)
                 LET e == CmgrExitStack(c, s)
                     reg == cmgrs[c][s][name]
                 IN IF exitstack[c][e].none
                    THEN /\ ok
                         /\ Failed("get", c, name, "AttributeError")
                    ELSE IF ok
                    THEN LET val == ResourceValue(reg.f, c, s, nobj + 1)
                         IN /\ nobj < MaxObj
                            /\ nobj' = nobj + 1
                            /\ exitstack' = [exitstack EXCEPT ![c][e].cbs =
                                                Append(@, nobj + 1)]
                            /\ acqlog' = Append(acqlog,
                                  [n |-> nobj + 1, c |-> c, s |-> s,
                                   name |-> name, rc |-> reg.c, rd |-> reg.d])
                            /\ context' = [context EXCEPT ![c] =
                                              Store(@, s, name, val)]
                            /\ last' = [Call("get", c, name) EXCEPT
                                           !.res = val, !.inv = s,
                                           !.how = "cmgr"]
                            /\ UNCHANGED <<nctx, parent, names, local_names,
                                           factory, cmgrs, invoked, regs,
                                           released>>
                    ELSE /\ last' = [Call("get", c, name) EXCEPT
                                        !.err = "Raised", !.inv = s,
                                        !.how = "cmgr"]
                         /\ UNCHANGED <<nctx, parent, context, exitstack,
                                        names, local_names, factory, cmgrs,
                                        invoked, regs, nobj, acqlog, released>>

\* Context.has(name, local, value)
has(c, name, local, value) ==
    IF local /\ value
    THEN name \in Top(local_names[c]) /\ name \in DOMAIN Top(context[c])
    ELSE IF local THEN name \in Top(local_names[c])
    ELSE IF value THEN name \in DOMAIN Top(context[c])
    ELSE name \in Top(names[c])

\* ---------------------------------------------------------------- behaviour
Fork == (\E p \in Ctxs : fork(p)) /\ UNCHANGED <<pvars, svars>>
Enter(depth) == (\E c \in Ctxs : enter(c, depth)) /\ UNCHANGED <<pvars, svars>>
Exit == (\E c \in Ctxs : exit(c, FALSE, FALSE)) /\ UNCHANGED <<pvars, svars>>
ExitExc == (\E c \in Ctxs : exit(c, TRUE, FALSE)) /\ UNCHANGED <<pvars, svars>>
ExitRaise ==
    (\E c \in Ctxs, exc \in BOOLEAN : exit(c, exc, TRUE))
        /\ UNCHANGED <<pvars, svars>>
Set(NS, VS) ==
    (\E c \in Ctxs, name \in NS, v \in VS : set(c, name, v))
        /\ UNCHANGED <<pvars, svars>>
Bind(NS) ==
    (\E c \in Ctxs, name \in NS, f \in Factories : bind(c, name, f))
        /\ UNCHANGED <<pvars, svars>>
Attach(NS) ==
    (\E c \in Ctxs, name \in NS, m \in Managers : attach(c, name, m))
        /\ UNCHANGED <<pvars, svars>>
Get(NS) ==
    (\E c \in Ctxs, name \in NS : get(c, name, TRUE))
        /\ UNCHANGED <<pvars, svars>>
GetRaise(NS) ==
    (\E c \in Ctxs, name \in NS : get(c, name, FALSE))
        /\ UNCHANGED <<pvars, svars>>

\* One Context, every operation, on one name.
Next ==
    \/ Enter(MaxDepth)
    \/ Exit
    \/ ExitRaise
    \/ Set(OneName, Values)
    \/ Bind(OneName)
    \/ Attach(OneName)
    \/ Get(OneName)
    \/ GetRaise(OneName)

Spec == Init /\ [][Next]_vars

\* One Context with set, bind, get and scopes.
NextBind ==
    \/ Enter(MaxDepth)
    \/ Exit
    \/ Set(OneName, Values)
    \/ Bind(OneName)
    \/ Get(OneName)
    \/ GetRaise(OneName)

SpecBind == Init /\ [][NextBind]_vars

\* One Context with attach, get and scopes, on two names; the factories and
\* context managers return, the releases may raise.
NextAttach ==
    \/ Enter(MaxAttachDepth)
    \/ Exit
    \/ ExitExc
    \/ ExitRaise
    \/ Attach(Names)
    \/ Get(Names)

SpecAttach == Init /\ [][NextAttach]_vars

\* One Context with set, attach, get and scopes, on two names.
NextSet ==
    \/ Enter(MaxAttachDepth)
    \/ Exit
    \/ ExitRaise
    \/ Set(Names, OneValue)
    \/ Attach(Names)
    \/ Get(Names)

SpecSet == Init /\ [][NextSet]_vars

\* A Context and its forks.
NextFork ==
    \/ Fork
    \/ Enter(MaxForkDepth)
    \/ Exit
    \/ Set(OneName, OneValue)
    \/ Bind(OneName)
    \/ Attach(OneName)
    \/ Get(OneName)

SpecFork == Init /\ [][NextFork]_vars

\* One Context whose calls fail: names set twice, attach outside a scope,
\* unknown names, raising factories, context managers and releases.
NextFail ==
    \/ Enter(MaxAttachDepth)
    \/ Exit
    \/ ExitRaise
    \/ Set(OneName, OneValue)
    \/ Bind(OneName)
    \/ Attach(OneName)
    \/ Get(OneName)
    \/ GetRaise(OneName)

SpecFail == Init /\ [][NextFail]_vars

\* A Context with attached resources and its forks, taken from any frame.
NextRelease ==
    \/ Fork
    \/ Enter(MaxDepth)
    \/ Exit
    \/ Attach(OneName)
    \/ Get(OneName)

SpecRelease == Init /\ [][NextRelease]_vars

\* The calls on a Page.
NewPage == (\E size \in PageSizes : page(size)) /\ UNCHANGED <<cvars, svars>>
AddProp ==
    (\E by \in Keys, prop \in OneProp, value \in ValuesOrNone :
        add_prop(by, prop, value)) /\ UNCHANGED <<cvars, svars>>
UpdateValue ==
    (\E by \in Keys, prop \in Props, value \in ValuesOrNone :
        update_value(by, prop, value)) /\ UNCHANGED <<cvars, svars>>
Clear == clear /\ UNCHANGED <<cvars, svars>>
ClearTillDepth ==
    (\E depth \in Depths : clear_till_depth(depth))
        /\ UNCHANGED <<cvars, svars>>
UpdateValuesFromPageKey ==
    (\E key \in Tokens : update_values_from_page_key(key))
        /\ UNCHANGED <<cvars, svars>>
UpdateValuesFromList ==
    (\E values \in ValueLists : update_values_from_list(values))
        /\ UNCHANGED <<cvars, svars>>
UpdateValuesFromPage ==
    (\E other \in Pages : update_values_from_page(other))
        /\ UNCHANGED <<cvars, svars>>
GetPageSize ==
    (\E default_page_size \in PageSizes, model_size \in PageSizes,
        given \in BOOLEAN :
        get_page_size(default_page_size, model_size, given))
        /\ UNCHANGED <<cvars, svars>>

\* One Page whose bindings are added, updated and cleared.
NextPage ==
    \/ AddProp
    \/ UpdateValue
    \/ Clear
    \/ ClearTillDepth

SpecPage == Init /\ [][NextPage]_vars

\* One Page that is loaded from tokens and from lists of values.
NextToken ==
    \/ AddProp
    \/ UpdateValuesFromPageKey
    \/ UpdateValuesFromList

SpecToken == Init /\ [][NextToken]_vars

\* One Page that is loaded from other Pages.
NextCopy ==
    \/ AddProp
    \/ UpdateValuesFromPage

SpecCopy == Init /\ [][NextCopy]_vars

\* The page size of requests with and without a Page.
NextPageSize ==
    \/ NewPage
    \/ GetPageSize

SpecPageSize == Init /\ [][NextPageSize]_vars

GetReprForError ==
    get_repr_for_error /\ UNCHANGED <<cvars, svars>>

\* A Page of any size reporting itself for an error message.
NextRepr ==
    \/ NewPage
    \/ AddProp
    \/ GetReprForError

SpecRepr == Init /\ [][NextRepr]_vars

\* One SAS dialect instance mapping the types of columns.
MapSasType ==
    (\E sas_type \in SasTypes, whole \in Lengths, tenths \in {0, 5},
        format_str \in CharFormats :
        /\ sas_type = "num" => format_str = "None"
        /\ map_sas_type_to_sqlalchemy(sas_type, LengthText(whole, tenths),
                                      format_str))
        /\ UNCHANGED <<cvars, pvars>>

NextSas == MapSasType

SpecSas == Init /\ [][NextSas]_vars

AcquiredInto(c, k) ==
    LET Open(e) == e.c = c /\ e.s = k /\ e.n \notin released
        open == SelectSeq(acqlog, Open)
    IN [i \in 1..Len(open) |-> open[i].n]

\* C2: a scope exit releases every resource acquired into the exited frame
\* exactly once and in reverse order of acquisition, whether or not the scope
\* is left by an exception.
C2_ReleasedOnExit ==
    [][last'.op = "exit"
         => /\ last'.rel = Reverse(AcquiredInto(last'.c, Len(context[last'.c])))
            /\ \A i \in 1..Len(last'.rel) : last'.rel[i] \notin released]_vars

\* A scope left by an exception that released two resources, the one
\* acquired last first.
C2_Witness ==
    /\ last.op = "exit"
    /\ last.exc
    /\ Len(last.rel) = 2
    /\ last.rel[1] > last.rel[2]
\* The value get(name) returns on Context c when it has nothing to call.
Resolved(c, name) ==
    LET lk == Lookup(c, name)
    IN IF lk.kind = "cached" THEN Top(context[c])[name]
       ELSE IF /\ lk.kind \in {"factory", "cmgr"}
               /\ lk.s <= Len(context[c])
               /\ name \in DOMAIN context[c][lk.s]
       THEN context[c][lk.s][name]
       ELSE NoValue

\* Frame d of Context c is alive, it registered the name with attach, and no
\* frame above it registered the name.
AttachedIn(c, d, name) ==
    /\ d <= Len(regs[c])
    /\ name \in DOMAIN regs[c][d]
    /\ regs[c][d][name].kind = "attach"
    /\ \A k \in (d + 1)..Len(regs[c]) : name \notin DOMAIN regs[c][k]

\* C3: a resource registered with attach in frame d and resolved from a
\* deeper frame is entered into the ExitStack of frame d, so that it is
\* released when frame d exits and not earlier; while it is open and the name
\* is not registered again above d, get(name) returns that same resource.
C3_ReleasedWithDefiningFrame ==
    \A i \in 1..Len(acqlog) :
        LET e == acqlog[i]
        IN e.rc = e.c =>
             /\ e.s = e.rd
             /\ (e.n \notin released /\ AttachedIn(e.c, e.rd, e.name))
                  => Resolved(e.c, e.name).n = e.n

\* C4: the values of a fork never contain a value that a factory or a
\* context manager returned to another Context: get on the fork calls the
\* factory again.
C4_ForkCallsFactoryAgain ==
    \A c \in 1..nctx : \A k \in 1..Len(context[c]) :
        \A name \in DOMAIN context[c][k] :
            context[c][k][name].k \in {"fac", "res"}
                => context[c][k][name].c = c

\* What get(name) would do on the given stacks: the value it returns or the
\* registration it resolves.
Outcome(ctx, fac, cm, name) ==
    LET lk == LookupIn(ctx, fac, cm, name)
    IN CASE lk.kind = "cached" -> <<"value", Top(ctx)[name]>>
         [] lk.kind = "unknown" -> <<"unknown">>
         [] lk.kind \in {"factory", "cmgr"} /\ lk.s > Len(ctx) -> <<"error">>
         [] lk.kind \in {"factory", "cmgr"} /\ lk.s <= Len(ctx)
              /\ name \in DOMAIN ctx[lk.s] -> <<"value", ctx[lk.s][name]>>
         [] lk.kind = "factory" /\ lk.s <= Len(ctx)
              /\ name \notin DOMAIN ctx[lk.s] -> <<"call", fac[lk.s][name]>>
         [] lk.kind = "cmgr" /\ lk.s <= Len(ctx)
              /\ name \notin DOMAIN ctx[lk.s] -> <<"open", cm[lk.s][name]>>

\* Every result that has and get give on Context c, now and right after its
\* next scope entry.
Observed(c) ==
    [name \in Names |->
        <<has(c, name, FALSE, FALSE), has(c, name, TRUE, FALSE),
          has(c, name, FALSE, TRUE),
          Outcome(context[c], factory[c], cmgrs[c], name),
          Outcome(Append(context[c], Top(context[c])),
                  Append(factory[c], EmptyDict),
                  Append(cmgrs[c], EnteredCmgrs(c)), name)>>]

\* C5: a call on one Context changes no has or get result of another
\* Context, the results after the other's next scope entry included.
C5_ForkIsPrivate ==
    [][\A c \in 1..nctx : c # last'.c => Observed(c)' = Observed(c)]_vars

\* The frames that enclose the current frame of Context c and registered
\* the name.
Enclosing(c, name) ==
    {k \in 1..(Len(regs[c]) - 1) : name \in DOMAIN regs[c][k]}

\* C6: once a child frame has registered an inherited name with set, bind or
\* attach, get(name) in that frame returns the value of the child's own
\* registration.
C6_ShadowedByChild ==
    [][(/\ last'.op = "get"
        /\ last'.err # "Raised"
        /\ last'.name \in DOMAIN Top(regs[last'.c])
        /\ Enclosing(last'.c, last'.name) # {})
         => LET own == Top(regs[last'.c])[last'.name]
                res == last'.res
            IN CASE own.kind = "set" -> res = SetValue(own.f)
                 [] own.kind = "bind" ->
                      /\ res.k = "fac" /\ res.f = own.f
                      /\ res.c = last'.c /\ res.s = Len(context[last'.c])
                 [] own.kind = "attach" ->
                      /\ res.k = "res" /\ res.f = own.f
                      /\ res.c = last'.c /\ res.s = Len(context[last'.c])]_vars

\* C7: set, bind and attach fail for a name that was registered in the
\* current frame, and succeed for a name registered only in an enclosing
\* frame.
C7_OncePerFrame ==
    [][last'.op \in {"set", "bind", "attach"}
         => /\ last'.name \in DOMAIN Top(regs[last'.c]) => last'.err # ""
            /\ (/\ last'.name \notin DOMAIN Top(regs[last'.c])
                /\ Enclosing(last'.c, last'.name) # {}) => last'.err = ""]_vars

\* C8: attach fails on the bottom frame of a Context, which has no scope
\* handle, and succeeds for a name not yet local in every frame created by
\* entering a scope.
C8_AttachNeedsScope ==
    [][last'.op = "attach"
         => /\ Len(context[last'.c]) = 1 => last'.err = "Assertion"
            /\ (/\ Len(context[last'.c]) > 1
                /\ last'.name \notin DOMAIN Top(regs[last'.c]))
                 => last'.err = ""]_vars

\* No value in the current state and no registration in any state.
NothingKnown(c, name) ==
    /\ name \notin DOMAIN Top(context[c])
    /\ \A k \in 1..Len(factory[c]) : name \notin DOMAIN factory[c][k]
    /\ \A k \in 1..Len(cmgrs[c]) : name \notin DOMAIN cmgrs[c][k]

\* C9: get(name) fails with the unknown-variable error exactly when the name
\* has no value in the current frame and no factory or resource registration
\* in any frame; in every other case it returns a value.
C9_UnknownOrValue ==
    [][last'.op = "get"
         => /\ last'.err = "Unknown" <=> NothingKnown(last'.c, last'.name)
            /\ ~NothingKnown(last'.c, last'.name)
                 => last'.err = "" /\ last'.res # NoValue]_vars

\* C10: right after fork, get on the fork returns, without calling anything,
\* the identical value for every name whose value in the parent's current
\* frame was given with set.
C10_ForkKeepsSetValues ==
    last.op = "fork" =>
        \A name \in Names :
            LET p == parent[last.c]
            IN (/\ name \in DOMAIN Top(context[p])
                /\ Top(context[p])[name].k = "set")
                 => /\ Lookup(last.c, name).kind = "cached"
                    /\ Top(context[last.c])[name] = Top(context[p])[name]

\* The values of the bindings of a Page, in insertion order.
PageValues(d) == [i \in 1..Len(d) |-> d[i].item.value]

\* C11: loading the token of a list of n values into a Page with n bindings
\* sets the i-th binding (in insertion order) to the i-th value, for every i,
\* so that the values of the Page afterwards encode to the same token.
C11_TokenRoundTrip ==
    [][pcall'.op = "update_values_from_page_key"
         => \A values \in ValueLists :
              (pcall'.arg[1] = TokenOf[values] /\ Len(values) = Len(page_by))
                => /\ PageValues(page_by') = values
                   /\ encode_page_values(PageValues(page_by')) = pcall'.arg[1]]_vars

\* C12: update_values_from_page_key fails with InvalidPageKey whenever the
\* number of values in the token differs from the number of bindings, and
\* succeeds whenever the two numbers are equal.
C12_InvalidPageKey ==
    [][pcall'.op = "update_values_from_page_key"
         => \A values \in ValueLists :
              pcall'.arg[1] = TokenOf[values]
                => /\ Len(values) # Len(page_by) => pcall'.err = "InvalidPageKey"
                   /\ Len(values) = Len(page_by) => pcall'.err = ""]_vars

\* A token of one value was refused by a Page with two bindings.
C12_Witness ==
    /\ pcall.op = "update_values_from_page_key"
    /\ pcall.err = "InvalidPageKey"
    /\ Len(page_by) = 2
    /\ \E values \in ValueLists : Len(values) = 1 /\ pcall.arg[1] = TokenOf[values]

\* C13: update_value('-x', prop, v) when a binding exists under 'x' renames
\* that binding to '-x' and sets its value to v: afterwards by has the key
\* '-x' with value v and has no key 'x'; when there was no '-x' before, the
\* binding keeps its place and its property.
C13_RenamedToDash ==
    [][(/\ pcall'.op = "update_value"
        /\ pcall'.arg[1][1] = "-"
        /\ HasKey(page_by, Tail(pcall'.arg[1])))
         => LET by == pcall'.arg[1]
                cleaned_up == Tail(by)
            IN /\ HasKey(page_by', by)
               /\ page_by'[KeyIndex(page_by', by)].item.value = pcall'.arg[3]
               /\ ~ HasKey(page_by', cleaned_up)
               /\ ~ HasKey(page_by, by)
                    => /\ KeyIndex(page_by', by) = KeyIndex(page_by, cleaned_up)
                       /\ page_by'[KeyIndex(page_by', by)].item.prop
                            = page_by[KeyIndex(page_by, cleaned_up)].item.prop
                       /\ Len(page_by') = Len(page_by)]_vars

\* update_value('-x', 'q', v) left a binding '-x' that it did not create (its
\* property is 'p'), next to a second binding.
C13_Witness ==
    /\ pcall.op = "update_value"
    /\ pcall.arg[1] = <<"-", "x">>
    /\ pcall.arg[2] = "q"
    /\ pcall.arg[3] # None
    /\ Len(page_by) = 2
    /\ page_by[2].key = <<"-", "x">>
    /\ page_by[2].item = PageBy("p", pcall.arg[3])

\* The smaller of two numbers.
Min(a, b) == IF a < b THEN a ELSE b

\* C14: clear_till_depth(depth) on a cursor with n bindings unsets the values
\* of exactly the last min(depth, n) bindings in insertion order and leaves
\* the values of all earlier bindings, and all keys and properties, unchanged;
\* for depth <= 0 nothing changes.
C14_ClearsTheTail ==
    [][pcall'.op = "clear_till_depth"
         => LET depth == pcall'.arg[1]
                n == Len(page_by)
            IN /\ Len(page_by') = n
               /\ \A j \in 1..n :
                    /\ page_by'[j].key = page_by[j].key
                    /\ page_by'[j].item.prop = page_by[j].item.prop
                    /\ page_by'[j].item.value =
                         IF depth > 0 /\ j > n - Min(depth, n)
                         THEN None ELSE page_by[j].item.value
               /\ depth <= 0 => page_by' = page_by]_vars

\* clear_till_depth(1) on two bindings left the value of the first one.
C14_Witness ==
    /\ pcall.op = "clear_till_depth"
    /\ pcall.arg[1] = 1
    /\ Len(page_by) = 2
    /\ page_by[1].item.value # None
    /\ page_by[2].item.value = None

\* C15: after update_values_from_page(other) every key of other is a key of
\* this Page with the same value as in other, and every binding of this Page
\* whose key is not a key of other has its value unset.
C15_CopiedFromPage ==
    [][pcall'.op = "update_values_from_page"
         => LET other == pcall'.arg[1]
            IN /\ \A i \in 1..Len(other) :
                    /\ HasKey(page_by', other[i].key)
                    /\ page_by'[KeyIndex(page_by', other[i].key)].item.value
                         = other[i].item.value
               /\ \A j \in 1..Len(page_by') :
                    ~ HasKey(other, page_by'[j].key)
                      => page_by'[j].item.value = None]_vars

\* C16: all_none() is true exactly when every binding's value is unset: it is
\* true right after clear(), false right after an update_value with a value
\* that is not None, and clear_till_depth makes it true exactly when it
\* unsets the last value that is not None.
C16_AllNone ==
    [][/\ pcall'.op = "clear" => all_none(page_by')
       /\ (pcall'.op = "update_value" /\ pcall'.arg[3] # None)
            => ~ all_none(page_by')
       /\ pcall'.op = "clear_till_depth"
            => (all_none(page_by')
                  <=> \A j \in 1..Len(page_by) :
                        page_by[j].item.value # None
                          => Len(page_by) - j < pcall'.arg[1])]_vars

\* update_value gave one of two bindings a value, the other one has none.
C16_Witness ==
    /\ pcall.op = "update_value"
    /\ pcall.arg[3] # None
    /\ Len(page_by) = 2
    /\ \E i \in 1..2 : page_by[i].item.value = None
    /\ ~ all_none(page_by)

\* C17: update_values_from_list(values) fails with the parameter-count error,
\* carrying the list of the binding keys, whenever len(values) differs from
\* the number of bindings; otherwise it assigns values[i] to the i-th binding
\* in insertion order.
C17_FromList ==
    [][pcall'.op = "update_values_from_list"
         => LET values == pcall'.arg[1]
            IN IF Len(values) # Len(page_by)
               THEN /\ pcall'.err = "InvalidPushWithPageParameterCount"
                    /\ pcall'.res = DictKeys(page_by)
               ELSE /\ pcall'.err = ""
                    /\ DictKeys(page_by') = DictKeys(page_by)
                    /\ PageValues(page_by') = values]_vars

\* The first value of a list that is not None; None when there is none.
RECURSIVE FirstNotNone(_)
FirstNotNone(sizes) ==
    IF sizes = <<>> THEN None
    ELSE IF sizes[1] # None THEN sizes[1]
    ELSE FirstNotNone(Tail(sizes))

\* C18: get_page_size returns the first non-null of the request page's size,
\* the model's page size and the configured default page size; a request
\* size that is not None is returned whatever its value, also when it is 0.
C18_FirstNonNull ==
    [][pcall'.op = "get_page_size"
         => LET default_page_size == pcall'.arg[1]
                model_size == pcall'.arg[2]
                request_size == IF pcall'.arg[3] THEN page_size ELSE None
            IN pcall'.res =
                 FirstNotNone(<<request_size, model_size, default_page_size>>)]_vars

\* C19: on one dialect instance, mapping a column of SAS type 'char' with
\* length L returns a character type whose length is L, whatever was mapped
\* earlier with the same type and format.
C19_CharLength ==
    mapped.sas_type = "char"
      => mapped.res = SASStringType(IntOfFloat(mapped.length))

\* C20, as stated: when get(name) resolves a factory found in frame s while
\* the current frame is t > s, the value is cached in every frame k with
\* s <= k <= t.
C20_CachedInEveryFrame ==
    [][(last'.op = "get" /\ last'.how = "factory" /\ last'.err = "")
         => \A k \in last'.inv..Len(context'[last'.c]) :
              /\ last'.name \in DOMAIN context'[last'.c][k]
              /\ context'[last'.c][k][last'.name] = last'.res]_vars

\* C20, amended: the value is cached in frame s and in the current frame t,
\* and the frames between them are left as they were.
C20_CachedInTwoFrames ==
    [][(last'.op = "get" /\ last'.how = "factory" /\ last'.err = "")
         => LET c == last'.c
                t == Len(context'[c])
            IN /\ Len(context[c]) = t
               /\ \A k \in 1..t :
                    IF k \in {last'.inv, t}
                    THEN /\ last'.name \in DOMAIN context'[c][k]
                         /\ context'[c][k][last'.name] = last'.res
                    ELSE context'[c][k] = context[c][k]]_vars

\* A factory bound in the bottom frame was resolved two scopes deeper: the
\* frame in between has no value for the name.
C20_Witness ==
    /\ last.op = "get" /\ last.how = "factory" /\ last.err = ""
    /\ last.inv = 1
    /\ Len(context[last.c]) = 3
    /\ has(last.c, last.name, FALSE, TRUE)
    /\ last.name \notin DOMAIN context[last.c][2]
\* C22: clear() sets the value of every binding to None and keeps the keys,
\* their insertion order and the property of each binding.
C22_ClearKeepsBindings ==
    [][pcall'.op = "clear"
         => /\ Len(page_by') = Len(page_by)
            /\ \A i \in 1..Len(page_by) :
                 /\ page_by'[i].key = page_by[i].key
                 /\ page_by'[i].item.prop = page_by[i].item.prop
                 /\ page_by'[i].item.value = None
            /\ page_size' = page_size]_vars

\* A Page with MaxKeys bindings has been cleared.
C22_Witness == pcall.op = "clear" /\ Len(page_by) = MaxKeys

\* C23: get_repr_for_error reports size - 1 as 'size' for every size the
\* Page holds (None for a Page without a size), the token of the current
\* values as 'key' and each key with its current value as 'key_values'.
C23_ReportsSizeLessOne ==
    [][pcall'.op = "get_repr_for_error"
         => /\ pcall'.res.size = IF page_size = None THEN None
                                 ELSE JInt(page_size.n - 1)
            /\ pcall'.res.key = TokenOf[PageValues(page_by)]
            /\ pcall'.res.key_values
                 = [i \in 1..Len(page_by)
                      |-> <<page_by[i].key, page_by[i].item.value>>]]_vars

\* The key without its '-' prefix.
Unprefixed(by) == IF by # <<>> /\ by[1] = "-" THEN Tail(by) ELSE by

\* C29: update_value on a key that is bound, or whose un-prefixed form is
\* bound, keeps the number of bindings, and a binding it renames keeps its
\* position; loading a token or a list keeps the number and order of bindings.
C29_KeepsNumberAndOrder ==
    [][LET by == pcall'.arg[1]
       IN /\ (pcall'.op = "update_value"
              /\ (HasKey(page_by, by) \/ HasKey(page_by, Unprefixed(by))))
             => /\ Len(page_by') = Len(page_by)
                /\ \A i \in 1..Len(page_by) :
                     page_by'[i].key = IF page_by[i].key = Unprefixed(by)
                                       THEN by ELSE page_by[i].key
          /\ pcall'.op \in {"update_values_from_page_key",
                            "update_values_from_list"}
             => DictKeys(page_by') = DictKeys(page_by)]_vars

\* C30: update_values_from_page_key or update_values_from_list that fails on
\* a length mismatch leaves every binding's key, property and value as it was.
C30_FailureKeepsPage ==
    [][(/\ pcall'.op \in {"update_values_from_page_key",
                          "update_values_from_list"}
        /\ pcall'.err # "")
         => page_by' = page_by /\ page_size' = page_size]_vars

\* A load has failed on a Page that holds a value.
C30_Witness ==
    /\ pcall.op \in {"update_values_from_page_key", "update_values_from_list"}
    /\ pcall.err # ""
    /\ \E i \in 1..Len(page_by) : page_by[i].item.value # None

\* C24: no get on a Context or on a fork returns an attached resource that
\* the exit of its defining frame has released.
C24_NeverReleased ==
    [][(last'.op = "get" /\ last'.err = "" /\ last'.res.k = "res")
         => last'.res.n \notin released']_vars

\* C25: on every Context and fork, get(name) does not raise the
\* unknown-variable error when has(name) is true, and has(name) is true when
\* get(name) returns.
C25_HasAgreesWithGet ==
    [][last'.op = "get"
         => /\ has(last'.c, last'.name, FALSE, FALSE) => last'.err # "Unknown"
            /\ last'.err = "" => has(last'.c, last'.name, FALSE, FALSE)]_vars

\* C26: the six stacks of every Context have the same length, which is 1
\* plus the number of entered scopes (the length of regs), also after an
\* exit whose release raised.
C26_Lockstep ==
    \A c \in 1..nctx :
        LET n == Len(regs[c])
        IN /\ Len(context[c]) = n
           /\ Len(factory[c]) = n
           /\ Len(cmgrs[c]) = n
           /\ Len(exitstack[c]) = n
           /\ Len(names[c]) = n
           /\ Len(local_names[c]) = n

\* The names that the live frames 1..d of Context c registered.
RegisteredUpTo(c, d) == UNION {DOMAIN regs[c][k] : k \in 1..d}

\* C21: on a Context that is not a fork, has(name) is true exactly for the
\* names registered by set, bind or attach in the current or an enclosing
\* frame, has(name, local=True) exactly for the names registered in the
\* current frame, and has(name, value=True) exactly for the names with a
\* value in the current frame.
C21_HasModes ==
    \A c \in 1..nctx : parent[c] = 0 =>
        \A name \in Names :
            /\ has(c, name, FALSE, FALSE)
                 <=> name \in RegisteredUpTo(c, Len(regs[c]))
            /\ has(c, name, TRUE, FALSE) <=> name \in DOMAIN Top(regs[c])
            /\ has(c, name, FALSE, TRUE) <=> name \in DOMAIN Top(context[c])

\* C27: a set, bind or attach that fails, and a get that fails with the
\* unknown-variable error or because the factory or the context manager
\* raised, changes no has or get result of the Context and caches nothing.
C27_FailureChangesNothing ==
    [][(\/ last'.op \in {"set", "bind", "attach"} /\ last'.err # ""
        \/ last'.op = "get" /\ last'.err \in {"Unknown", "Raised"})
         => \A c \in Ctxs :
              c = last'.c => /\ Observed(c)' = Observed(c)
                             /\ context'[c] = context[c]]_vars

\* A get has failed because the factory raised, inside a scope of a Context
\* that has the name.
C27_Witness ==
    /\ last.op = "get"
    /\ last.err = "Raised"
    /\ last.how = "factory"
    /\ Len(context[last.c]) > 1
    /\ has(last.c, last.name, FALSE, FALSE)

\* C28: after the exit of a scope of a Context that is not a fork, has gives
\* in all three modes what the enclosing frame gives, the values of the
\* enclosing frame are the values get returns, and no name registered only
\* inside the exited scope is visible to has or get.
C28_ExitRestores ==
    [][(last'.op = "exit" /\ parent[last'.c] = 0)
         => \A c \in Ctxs : c = last'.c =>
              LET d == Len(regs[c]) - 1
              IN \A name \in Names :
                 /\ has(c, name, FALSE, FALSE)' <=> name \in RegisteredUpTo(c, d)
                 /\ has(c, name, TRUE, FALSE)' <=> name \in DOMAIN regs[c][d]
                 /\ has(c, name, FALSE, TRUE)' <=> name \in DOMAIN context[c][d]
                 /\ name \in DOMAIN context[c][d]
                      => Outcome(context[c], factory[c], cmgrs[c], name)'
                           = <<"value", context[c][d][name]>>
                 /\ name \notin RegisteredUpTo(c, d)
                      => Outcome(context[c], factory[c], cmgrs[c], name)'
                           = <<"unknown">>]_vars

====
